---- MODULE Spec2Model ----
(***************************************************************************)
(* Jump Dash (src/script.js): the Character, the ObstacleManager, the      *)
(* Game state machine and its requestAnimationFrame loop.                  *)
(*                                                                         *)
(* Numbers.  The code computes in doubles.  The model is fixed point with  *)
(* one decimal digit: yPos, velocityY, score, spawnInterval and obstacle   *)
(* positions are held in tenths (value * Fix).  Times are in milliseconds. *)
(* Frame gaps are multiples of 50 ms, so every quantity is a whole number  *)
(* of tenths.                                                              *)
(***************************************************************************)
EXTENDS Integers, Sequences, FiniteSets, Bags, TLC

\* ----- bounds of the exploration -----
MaxFrames == 4          \* animation frames explored under Spec
MaxPending == 2         \* requestAnimationFrame callbacks queued at once
MaxRect == 2            \* rectangle coordinates 0..MaxRect under SpecRect
MaxBoardFrames == 5     \* animation frames explored under SpecBoard
MaxPrior == 5           \* final scores of earlier sessions under SpecBoard
MaxDifficultyFrames == 4  \* animation frames explored under SpecDifficulty
MaxStorageFrames == 4   \* animation frames explored under SpecStorage
MaxObstacles == 3       \* obstacle elements alive at once under SpecManager

\* ----- fixed point -----
Fix == 10

\* ----- CONFIG (script.js 2-12), in source units -----
GROUND_LEVEL == 10
CHARACTER_JUMP_POWER == 12
CHARACTER_GRAVITY_TENTHS == 0 - 6     \* CHARACTER_GRAVITY: -0.6
COYOTE_THRESHOLD == 6
INITIAL_OBSTACLE_SPEED == 5
INITIAL_SPAWN_INTERVAL == 2000
MIN_SPAWN_INTERVAL == 800
SCORE_RATE == 10
FPS_SCALE == 60

\* ----- GameState (script.js 15-20) -----
HOME == 0
RUNNING == 1
PAUSED == 2
GAMEOVER == 3

\* ----- other literals of the code -----
MinSpawnGap == 1500         \* ObstacleManager.minSpawnGap
SpawnDelayBase == 500       \* "+ 500" in the spawn delay
OffscreenLimit == 0 - 30    \* "obs.position < -30"
LeaderboardSize == 5        \* slice(0, 5)
LevelStep == 1000           \* "% 1000"

\* ----- page layout read back through offsetWidth / getBoundingClientRect,
\*       in pixels (the style sheet fixes them; the code only reads them) -----
ContainerWidth == 380
ContainerHeight == 300
CharLeft == 50
CharWidth == 50
CharHeight == 50
ObsWidth == 30
ObsHeight == 40

VARIABLES
    character,        \* Character: yPos, velocityY (tenths), isJumping, coyoteCounter
    obstacleManager,  \* ObstacleManager: obstacleSpeed, spawnInterval (tenths),
                      \*   activeObstacles, pool, timeSinceLastSpawn (ms)
    attached,         \* obstacle elements that have a parentNode
    game,             \* Game: state, score (tenths), highScore, level,
                      \*   obstacleSpeed, spawnInterval (tenths), lastFrameTime
    localStorage,     \* highScore, leaderboard
    rafQueue,         \* gameLoop callbacks requested for the next frame
    frameQueue,       \* gameLoop callbacks still to run in the current frame
    now,              \* performance.now(), ms
    frames,           \* animation frames so far
    called,           \* the function the last step ran
    dispatched,       \* CustomEvents dispatched by the last step
    finals,           \* bag of the final scores handed to updateLeaderboard
    rectA, rectB,     \* two rectangles, used under SpecRect only
    tested,           \* the collision test on (rectA, rectB) and on (rectB, rectA)
    deltaTime,        \* ms passed to the last direct ObstacleManager.update call,
                      \*   used under SpecManager only
    clock             \* anchor: the instant of the last tick that ran, or of the
                      \*   last startGame(), resume() or restart() after it;
                      \*   skipped: ms between the anchor and the last resume()

vars == <<character, obstacleManager, attached, game, localStorage, rafQueue,
          frameQueue, now, frames, called, dispatched, finals, rectA, rectB,
          tested, deltaTime, clock>>

\* localStorage.getItem of a key that was never set
Null == <<"null">>

\* a rectangle or a test result not yet drawn
None == <<>>

Max(a, b) == IF a >= b THEN a ELSE b
Min(a, b) == IF a <= b THEN a ELSE b

\* Math.floor of a value held in tenths
Floor(x10) == x10 \div Fix

(***************************************************************************)
(* Character (script.js 131-177)                                           *)
(***************************************************************************)
NewCharacter ==
    [yPos |-> GROUND_LEVEL * Fix, velocityY |-> 0, isJumping |-> FALSE,
     coyoteCounter |-> COYOTE_THRESHOLD]

\* "this.yPos === this.groundLevel" (line 154).  With doubles the comparison
\* is true only for a yPos that was assigned groundLevel: the one airborne
\* height that is 10 in exact arithmetic (39 updates after a jump from the
\* ground, velocity -11.4) is 10.000000000000178 as a double.
YPosIsGroundLevel(ch) ==
    ch.yPos = GROUND_LEVEL * Fix /\ ch.velocityY >= 0

\* a jump() that tests the grace counter with < instead of <=
JumpRejectedStrict(ch) == ch.isJumping /\ ch.coyoteCounter < 0

\* jump(): line 146, the early return
JumpRejected(ch) == ch.isJumping /\ ch.coyoteCounter <= 0

\* a jump() that leaves the grace counter alone
JumpKeepsCoyote(ch) ==
    IF JumpRejected(ch) THEN ch
    ELSE [ch EXCEPT !.isJumping = TRUE,
                    !.velocityY = CHARACTER_JUMP_POWER * Fix]

\* jump(): lines 147-149
Jump(ch) ==
    IF JumpRejected(ch) THEN ch
    ELSE [ch EXCEPT !.isJumping = TRUE,
                    !.velocityY = CHARACTER_JUMP_POWER * Fix,
                    !.coyoteCounter = 0]

\* jump(): lines 150-151
JumpEvents(ch) == IF JumpRejected(ch) THEN <<>> ELSE <<"playerJump">>

\* update(): lines 154-158
CoyoteAfter(ch) ==
    IF YPosIsGroundLevel(ch) THEN COYOTE_THRESHOLD
    ELSE IF ch.coyoteCounter > 0 THEN ch.coyoteCounter - 1
    ELSE ch.coyoteCounter

\* update(): line 161, after lines 159-160
Lands(ch) ==
    ch.yPos + (ch.velocityY + CHARACTER_GRAVITY_TENTHS) < GROUND_LEVEL * Fix

\* an update() that forgets "this.velocityY = 0" on landing
UpdateKeepsVelocity(ch) ==
    LET v == ch.velocityY + CHARACTER_GRAVITY_TENTHS
        y == ch.yPos + v
    IN  IF Lands(ch)
        THEN [yPos |-> GROUND_LEVEL * Fix, velocityY |-> v,
              isJumping |-> FALSE, coyoteCounter |-> CoyoteAfter(ch)]
        ELSE [yPos |-> y, velocityY |-> v, isJumping |-> ch.isJumping,
              coyoteCounter |-> CoyoteAfter(ch)]

\* update(): lines 153-173
Update(ch) ==
    LET v == ch.velocityY + CHARACTER_GRAVITY_TENTHS
        y == ch.yPos + v
    IN  IF Lands(ch)
        THEN [yPos |-> GROUND_LEVEL * Fix, velocityY |-> 0,
              isJumping |-> FALSE, coyoteCounter |-> CoyoteAfter(ch)]
        ELSE [yPos |-> y, velocityY |-> v, isJumping |-> ch.isJumping,
              coyoteCounter |-> CoyoteAfter(ch)]

\* an update() that lands without its playerLand event
UpdateEventsSilent(ch) == <<>>

\* update(): lines 162-167
UpdateEvents(ch) ==
    IF Lands(ch) /\ ch.isJumping THEN <<"playerLand">> ELSE <<>>

(***************************************************************************)
(* ObstacleManager (script.js 180-229)                                     *)
(***************************************************************************)
\* Math.random() is Rand / RandDen, a value of [0, 1)
RandDen == 4
Rands == {0, 3}

NewObstacleManager(initialSpeed, spawnInterval) ==
    [obstacleSpeed |-> initialSpeed, spawnInterval |-> spawnInterval,
     activeObstacles |-> <<>>, pool |-> <<>>, timeSinceLastSpawn |-> 0]

RECURSIVE Reverse(_)
Reverse(s) == IF s = <<>> THEN <<>> ELSE Reverse(Tail(s)) \o <<Head(s)>>

\* line 193: this.obstacleSpeed * deltaTime * CONFIG.FPS_SCALE, in tenths of a pixel
Scroll(om, deltaMs) == (om.obstacleSpeed * deltaMs * FPS_SCALE * Fix) \div 1000

\* lines 192-194: every active obstacle after the move
Moved(om, deltaMs) ==
    [i \in 1..Len(om.activeObstacles) |->
        [element |-> om.activeObstacles[i].element,
         position |-> om.activeObstacles[i].position - Scroll(om, deltaMs)]]

\* line 195
OffScreen(obs) == obs.position < OffscreenLimit * Fix

\* lines 196-198: the loop runs from the last index down, so the elements
\* reach the pool in reverse order of the active list
Recycled(om, deltaMs) ==
    LET gone == SelectSeq(Moved(om, deltaMs), OffScreen)
    IN  Reverse([i \in 1..Len(gone) |-> gone[i].element])

StillActive(om, deltaMs) ==
    SelectSeq(Moved(om, deltaMs), LAMBDA obs : ~OffScreen(obs))

\* a spawn delay without the clamp of line 203
SpawnDelayNoClamp(spawnInterval, rand) ==
    rand * spawnInterval + SpawnDelayBase * RandDen * Fix

\* lines 202-203: max(random * spawnInterval + 500, minSpawnGap), in ms
\* multiplied by RandDen * Fix
SpawnDelay(spawnInterval, rand) ==
    Max(rand * spawnInterval + SpawnDelayBase * RandDen * Fix,
        MinSpawnGap * RandDen * Fix)

\* line 204: timeSinceLastSpawn > spawnDelay
SpawnDue(time, spawnInterval, rand) ==
    time * RandDen * Fix > SpawnDelay(spawnInterval, rand)

\* document.createElement: an element distinct from every one the manager holds
NewElement(om) ==
    LET used == {om.activeObstacles[i].element : i \in 1..Len(om.activeObstacles)}
                \cup {om.pool[i] : i \in 1..Len(om.pool)}
    IN  CHOOSE e \in 1..(Cardinality(used) + 1) : e \notin used

\* a spawnObstacle() that always creates its element
SpawnElementAlwaysNew(om) == NewElement(om)

\* spawnObstacle(): lines 209-221
SpawnElement(om) ==
    IF Len(om.pool) > 0 THEN om.pool[Len(om.pool)] ELSE NewElement(om)

\* a spawnObstacle() that reads the pool's last element without popping it
SpawnObstacleKeepsPool(om) ==
    [om EXCEPT
        !.activeObstacles =
            Append(om.activeObstacles,
                   [element |-> SpawnElement(om),
                    position |-> ContainerWidth * Fix])]

SpawnObstacle(om) ==
    [om EXCEPT
        !.pool = IF Len(om.pool) > 0 THEN SubSeq(om.pool, 1, Len(om.pool) - 1)
                 ELSE om.pool,
        !.activeObstacles =
            Append(om.activeObstacles,
                   [element |-> SpawnElement(om),
                    position |-> ContainerWidth * Fix])]

\* update(deltaTime): lines 190-200, the scroll and recycle loop
Scrolled(om, deltaMs) ==
    [om EXCEPT !.activeObstacles = StillActive(om, deltaMs),
               !.pool = om.pool \o Recycled(om, deltaMs),
               !.timeSinceLastSpawn = om.timeSinceLastSpawn + deltaMs]

\* update(deltaTime): lines 190-208
ManagerUpdate(om, deltaMs, rand) ==
    LET s == Scrolled(om, deltaMs)
    IN  IF SpawnDue(s.timeSinceLastSpawn, s.spawnInterval, rand)
        THEN [SpawnObstacle(s) EXCEPT !.timeSinceLastSpawn = 0]
        ELSE s

\* the elements with a parentNode after update(): remove() at line 196,
\* appendChild at line 219
AttachedAfterUpdate(att, om, deltaMs, rand) ==
    LET s == Scrolled(om, deltaMs)
        detached == {Recycled(om, deltaMs)[i] : i \in 1..Len(Recycled(om, deltaMs))}
    IN  IF SpawnDue(s.timeSinceLastSpawn, s.spawnInterval, rand)
        THEN (att \ detached) \cup {SpawnElement(s)}
        ELSE att \ detached

\* a reset() that empties the active list and leaves the pool
ManagerResetKeepsPool(om) ==
    [om EXCEPT !.activeObstacles = <<>>, !.timeSinceLastSpawn = 0]

\* reset(): lines 222-228
ManagerReset(om) ==
    [om EXCEPT !.activeObstacles = <<>>, !.pool = <<>>, !.timeSinceLastSpawn = 0]

(***************************************************************************)
(* Collision test (script.js 371-378)                                      *)
(***************************************************************************)
\* getBoundingClientRect of the character: style.bottom is yPos px (line 175);
\* screen y grows downwards.  Pixels, in tenths.
CharRect(ch) ==
    [left |-> CharLeft * Fix, right |-> (CharLeft + CharWidth) * Fix,
     top |-> ContainerHeight * Fix - ch.yPos - CharHeight * Fix,
     bottom |-> ContainerHeight * Fix - ch.yPos]

\* getBoundingClientRect of an obstacle: translateX(position) (line 194),
\* standing on the ground line
ObsRect(obs) ==
    [left |-> obs.position, right |-> obs.position + ObsWidth * Fix,
     top |-> (ContainerHeight - GROUND_LEVEL - ObsHeight) * Fix,
     bottom |-> (ContainerHeight - GROUND_LEVEL) * Fix]

\* an overlap test with <= in its second clause
OverlapInclusive(charRect, obsRect) ==
    /\ charRect.right > obsRect.left
    /\ charRect.left <= obsRect.right
    /\ charRect.bottom > obsRect.top

\* an overlap test without its third clause
OverlapIgnoresHeight(charRect, obsRect) ==
    /\ charRect.right > obsRect.left
    /\ charRect.left < obsRect.right

\* lines 374-378
Overlap(charRect, obsRect) ==
    /\ charRect.right > obsRect.left
    /\ charRect.left < obsRect.right
    /\ charRect.bottom > obsRect.top

\* lines 372-384: the loop ends at the first overlap
Collision(ch, om) ==
    \E i \in 1..Len(om.activeObstacles) :
        Overlap(CharRect(ch), ObsRect(om.activeObstacles[i]))

(***************************************************************************)
(* Leaderboard and storage (script.js 442-448)                             *)
(***************************************************************************)
\* a stored text that is not JSON
Corrupt == <<"corrupt">>

\* localStorage.setItem(key, number): the decimal text, kept as the number it spells
ToText(n) == <<"text", n>>

\* JSON.stringify of an array of integers: the text, kept as the array it spells
JSONStringify(arr) == <<"json", arr>>

\* JSON.parse throws a SyntaxError on text that is not JSON
JSONParseThrows(text) == text = Corrupt

\* JSON.parse(null) is null; "|| []" turns it into the empty array
ParseLeaderboard(text) == IF text = Null THEN <<>> ELSE text[2]

RECURSIVE InsertDesc(_, _)
InsertDesc(s, x) ==
    IF s = <<>> THEN <<x>>
    ELSE IF x > Head(s) THEN <<x>> \o s
    ELSE <<Head(s)>> \o InsertDesc(Tail(s), x)

\* leaderboard.sort((a, b) => b - a)
RECURSIVE SortDesc(_)
SortDesc(s) == IF s = <<>> THEN <<>> ELSE InsertDesc(SortDesc(Tail(s)), Head(s))

\* leaderboard.slice(0, 5)
Slice(s, n) == SubSeq(s, 1, Min(n, Len(s)))

\* an updateLeaderboard that truncates before it sorts
UpdateLeaderboardSliceFirst(text, score) ==
    JSONStringify(SortDesc(Slice(Append(ParseLeaderboard(text), score),
                                 LeaderboardSize)))

\* updateLeaderboard(score): lines 443-447, the text written back
UpdateLeaderboard(text, score) ==
    JSONStringify(Slice(SortDesc(Append(ParseLeaderboard(text), score)),
                        LeaderboardSize))

(***************************************************************************)
(* Game (script.js 263-491)                                                *)
(***************************************************************************)
\* frame gaps offered by the display, ms: a short frame, a slow frame, and a
\* stall (background tab)
Deltas == {50, 1000, 100000}

\* line 386: deltaTime * CONFIG.SCORE_RATE, in tenths
ScoreGain(deltaMs) == (deltaMs * SCORE_RATE * Fix) \div 1000

\* a spawn interval that shrinks by score / 4
SpawnIntervalQuarter(score) ==
    Max(MIN_SPAWN_INTERVAL * Fix, INITIAL_SPAWN_INTERVAL * Fix - score \div 4)

\* lines 393-396, in tenths
SpawnIntervalFor(score) ==
    Max(MIN_SPAWN_INTERVAL * Fix, INITIAL_SPAWN_INTERVAL * Fix - score \div 5)

\* line 399
LevelUpDue(score) ==
    Floor(score) % LevelStep = 0 /\ Floor(score) # 0

\* levelUp(): lines 406-410
LevelUp(g) ==
    [g EXCEPT !.level = g.level + 1, !.obstacleSpeed = g.obstacleSpeed + 1]

\* the highScore field when it holds a text that Number() turns into NaN
NotANumber == 0 - 1

\* line 388: this.score > this.highScore, for the score after line 386; a
\* comparison with NaN is false
HighScoreBeaten(g, deltaMs) ==
    /\ g.highScore # NotANumber
    /\ g.score + ScoreGain(deltaMs) > g.highScore * Fix

\* gameLoop: lines 386-401, the part after a tick without collision
Scored(g, deltaMs) ==
    LET score == g.score + ScoreGain(deltaMs)
        g1 == [g EXCEPT !.score = score,
                        !.highScore = IF HighScoreBeaten(g, deltaMs)
                                      THEN Floor(score) ELSE g.highScore,
                        !.spawnInterval = SpawnIntervalFor(score)]
    IN  IF LevelUpDue(score) THEN LevelUp(g1) ELSE g1

\* line 295: localStorage.getItem("highScore") || 0
LoadHighScore(text) ==
    IF text = Null THEN 0
    ELSE IF text = Corrupt THEN NotANumber
    ELSE text[2]

InitGame ==
    /\ character = NewCharacter
    /\ obstacleManager = NewObstacleManager(INITIAL_OBSTACLE_SPEED,
                                            INITIAL_SPAWN_INTERVAL * Fix)
    /\ attached = {}
    /\ game = [state |-> HOME, score |-> 0,
               highScore |-> LoadHighScore(localStorage.highScore), level |-> 1,
               obstacleSpeed |-> INITIAL_OBSTACLE_SPEED,
               spawnInterval |-> INITIAL_SPAWN_INTERVAL * Fix,
               lastFrameTime |-> 0]
    /\ rafQueue = 0
    /\ frameQueue = 0
    /\ now = 0
    /\ frames = 0
    /\ called = "constructor"
    /\ dispatched = <<>>
    /\ tested = None
    /\ deltaTime = 0
    /\ clock = [anchor |-> 0, skipped |-> 0]

\* a browser that has never stored anything
FreshStorage ==
    /\ localStorage = [highScore |-> Null, leaderboard |-> Null]
    /\ finals = EmptyBag

Init == FreshStorage /\ InitGame /\ rectA = None /\ rectB = None

\* the browser starts a frame deltaMs after the previous one: the callbacks
\* requested so far are the ones this frame runs, all with the same timestamp
AnimationFrame(deltaMs, limit) ==
    /\ frameQueue = 0
    /\ frames < limit
    /\ now' = now + deltaMs
    /\ frames' = frames + 1
    /\ frameQueue' = rafQueue
    /\ rafQueue' = 0
    /\ called' = "frame"
    /\ dispatched' = <<>>
    /\ UNCHANGED <<character, obstacleManager, attached, game, localStorage,
                   finals, rectA, rectB, tested, deltaTime, clock>>

\* gameLoop(currentTime): lines 363-404, with gameOver() (430-440)
GameLoop(rand) ==
    /\ frameQueue > 0
    /\ frameQueue' = frameQueue - 1
    /\ called' = "gameLoop"
    /\ UNCHANGED <<now, frames, rectA, rectB, tested, deltaTime>>
    /\ clock' = IF game.state = RUNNING THEN [clock EXCEPT !.anchor = now]
                ELSE clock
    /\ IF game.state # RUNNING
       THEN /\ dispatched' = <<>>
            /\ UNCHANGED <<character, obstacleManager, attached, game,
                           localStorage, rafQueue, finals>>
       ELSE LET deltaMs == now - game.lastFrameTime
                g0 == [game EXCEPT !.lastFrameTime = now]
                om == ManagerUpdate(obstacleManager, deltaMs, rand)
            IN  /\ character' = Update(character)
                /\ attached' = AttachedAfterUpdate(attached, obstacleManager,
                                                   deltaMs, rand)
                /\ IF Collision(character', om)
                   THEN /\ obstacleManager' = om
                        /\ dispatched' = UpdateEvents(character)
                                         \o <<"playerCollision">>
                        /\ game' = [g0 EXCEPT !.state = GAMEOVER]
                        /\ finals' = finals (+) SetToBag({Floor(game.score)})
                        /\ localStorage' =
                             IF JSONParseThrows(localStorage.leaderboard)
                             THEN localStorage
                             ELSE [localStorage EXCEPT !.leaderboard =
                                     UpdateLeaderboard(localStorage.leaderboard,
                                                       Floor(game.score))]
                        /\ UNCHANGED rafQueue
                   ELSE /\ dispatched' = UpdateEvents(character)
                        /\ game' = Scored(g0, deltaMs)
                        /\ obstacleManager' =
                             [om EXCEPT !.spawnInterval = game'.spawnInterval]
                        /\ localStorage' =
                             IF HighScoreBeaten(g0, deltaMs)
                             THEN [localStorage EXCEPT
                                      !.highScore = ToText(game'.highScore)]
                             ELSE localStorage
                        /\ rafQueue' = rafQueue + 1
                        /\ UNCHANGED finals

\* startGame(): lines 346-353
StartGame ==
    /\ frameQueue = 0
    /\ rafQueue < MaxPending
    /\ game' = [game EXCEPT !.state = RUNNING, !.lastFrameTime = now]
    /\ rafQueue' = rafQueue + 1
    /\ called' = "startGame"
    /\ dispatched' = <<>>
    /\ clock' = [anchor |-> now, skipped |-> 0]
    /\ UNCHANGED <<character, obstacleManager, attached, localStorage,
                   frameQueue, now, frames, finals, rectA, rectB, tested, deltaTime>>

\* pause(): lines 412-418
Pause(by) ==
    /\ game' = [game EXCEPT !.state = PAUSED]
    /\ called' = by
    /\ dispatched' = <<>>
    /\ UNCHANGED <<character, obstacleManager, attached, localStorage, rafQueue,
                   frameQueue, now, frames, finals, rectA, rectB, tested, deltaTime, clock>>

\* a resume() that leaves lastFrameTime at the last tick before the pause
ResumedKeepsLastFrameTime(g, time) == [g EXCEPT !.state = RUNNING]

\* resume(): lines 421 and 425, the fields it writes
Resumed(g, time) == [g EXCEPT !.state = RUNNING, !.lastFrameTime = time]

\* resume(): lines 420-428
Resume(by) ==
    /\ rafQueue < MaxPending
    /\ game' = Resumed(game, now)
    /\ rafQueue' = rafQueue + 1
    /\ called' = by
    /\ dispatched' = <<>>
    /\ clock' = [anchor |-> now, skipped |-> now - clock.anchor]
    /\ UNCHANGED <<character, obstacleManager, attached, localStorage,
                   frameQueue, now, frames, finals, rectA, rectB, tested, deltaTime>>

\* pause button: lines 317-319
PauseBtnClick == frameQueue = 0 /\ game.state = RUNNING /\ Pause("pause")

\* play button: lines 320-322
PlayBtnClick == frameQueue = 0 /\ game.state = PAUSED /\ Resume("resume")

\* keydown "p": lines 243-246
KeyDownP ==
    /\ frameQueue = 0
    /\ \/ game.state = RUNNING /\ Pause("pause")
       \/ game.state = PAUSED /\ Resume("resume")

\* character.jump(): lines 145-152
CallJump ==
    /\ character' = Jump(character)
    /\ dispatched' = JumpEvents(character)
    /\ called' = "jump"
    /\ UNCHANGED <<obstacleManager, attached, game, localStorage, rafQueue,
                   frameQueue, now, frames, finals, rectA, rectB, tested, deltaTime, clock>>

\* character.update(): lines 153-173
CallUpdate ==
    /\ character' = Update(character)
    /\ dispatched' = UpdateEvents(character)
    /\ called' = "update"
    /\ UNCHANGED <<obstacleManager, attached, game, localStorage, rafQueue,
                   frameQueue, now, frames, finals, rectA, rectB, tested, deltaTime, clock>>

\* keydown space / ArrowUp, touchstart, swipe up: lines 240-242, 248-258
JumpInput == frameQueue = 0 /\ game.state = RUNNING /\ CallJump

\* restart(): lines 467-490, the restart button's listener (line 323)
Restart ==
    /\ frameQueue = 0
    /\ rafQueue < MaxPending
    /\ game' = [game EXCEPT !.state = RUNNING, !.score = 0, !.level = 1,
                            !.obstacleSpeed = INITIAL_OBSTACLE_SPEED,
                            !.spawnInterval = INITIAL_SPAWN_INTERVAL * Fix,
                            !.lastFrameTime = now]
    /\ obstacleManager' = ManagerReset(obstacleManager)
    /\ attached' = {}
    /\ character' = [character EXCEPT !.yPos = GROUND_LEVEL * Fix,
                                      !.velocityY = 0, !.isJumping = FALSE]
    /\ rafQueue' = rafQueue + 1
    /\ called' = "restart"
    /\ dispatched' = <<>>
    /\ clock' = [anchor |-> now, skipped |-> 0]
    /\ UNCHANGED <<localStorage, frameQueue, now, frames, finals, rectA, rectB,
                   tested, deltaTime>>

Next ==
    \/ \E d \in Deltas : AnimationFrame(d, MaxFrames)
    \/ \E r \in Rands : GameLoop(r)
    \/ StartGame
    \/ PauseBtnClick
    \/ PlayBtnClick
    \/ KeyDownP
    \/ JumpInput
    \/ Restart

Spec == Init /\ [][Next]_vars

(***************************************************************************)
(* The Character alone: every sequence of jump() and update() calls        *)
(***************************************************************************)
NextChar == CallJump \/ CallUpdate

SpecChar == Init /\ [][NextChar]_vars

\* the same calls while ticks keep running: line 367 calls update() in every
\* tick, and every tick of a running game requests the next one (line 402)
SpecCharFair == SpecChar /\ WF_vars(CallUpdate)

(***************************************************************************)
(* The collision test alone, on every pair of rectangles over 0..MaxRect   *)
(***************************************************************************)
Rects == [left : 0..MaxRect, right : 0..MaxRect, top : 0..MaxRect,
          bottom : 0..MaxRect]

InitRect == FreshStorage /\ InitGame /\ rectA \in Rects /\ rectB \in Rects

\* lines 374-378 applied to (rectA, rectB) and to (rectB, rectA)
TestOverlap ==
    /\ tested = None
    /\ tested' = [ab |-> Overlap(rectA, rectB), ba |-> Overlap(rectB, rectA)]
    /\ called' = "overlap"
    /\ UNCHANGED <<character, obstacleManager, attached, game, localStorage,
                   rafQueue, frameQueue, now, frames, dispatched, finals,
                   rectA, rectB, deltaTime, clock>>

NextRect == TestOverlap

SpecRect == InitRect /\ [][NextRect]_vars

(***************************************************************************)
(* Runs that end in a collision, in a browser whose storage holds the      *)
(* leaderboard earlier sessions left: no jump and no pause                 *)
(***************************************************************************)
BoardDeltas == {1000, 2000}

\* final scores of the runs of earlier sessions
PriorScores == {20, 30, 50}
PriorFinals == UNION {[1..n -> PriorScores] : n \in 0..MaxPrior}

Occurrences(seq, x) == Cardinality({i \in 1..Len(seq) : seq[i] = x})

SeqToBag(seq) ==
    [x \in {seq[i] : i \in 1..Len(seq)} |-> Occurrences(seq, x)]

\* updateLeaderboard called once per earlier run, from an empty storage
RECURSIVE InsertAll(_, _)
InsertAll(text, scores) ==
    IF scores = <<>> THEN text
    ELSE InsertAll(UpdateLeaderboard(text, Head(scores)), Tail(scores))

\* the high score those runs left: line 390 stores the floor of the score of
\* the best run's last scored tick, which is that run's final score
BestOf(scores) ==
    IF scores = <<>> THEN Null
    ELSE ToText(CHOOSE m \in {scores[i] : i \in 1..Len(scores)} :
                   \A i \in 1..Len(scores) : scores[i] <= m)

InitBoard ==
    /\ \E prior \in PriorFinals :
          /\ localStorage = [highScore |-> BestOf(prior),
                             leaderboard |-> InsertAll(Null, prior)]
          /\ finals = SeqToBag(prior)
    /\ InitGame
    /\ rectA = None
    /\ rectB = None

NextBoard ==
    \/ \E d \in BoardDeltas : AnimationFrame(d, MaxBoardFrames)
    \/ \E r \in Rands : GameLoop(r)
    \/ StartGame
    \/ Restart

SpecBoard == InitBoard /\ [][NextBoard]_vars

(***************************************************************************)
(* Long runs: slow frames and stalls that carry the score into the         *)
(* thousands                                                               *)
(***************************************************************************)
\* 1400 ms carries an obstacle off screen before the next one is due
DifficultyDeltas == {1000, 1400, 200000}

NextDifficulty ==
    \/ \E d \in DifficultyDeltas : AnimationFrame(d, MaxDifficultyFrames)
    \/ \E r \in Rands : GameLoop(r)
    \/ StartGame
    \/ PauseBtnClick
    \/ PlayBtnClick
    \/ JumpInput
    \/ Restart

SpecDifficulty == Init /\ [][NextDifficulty]_vars

(***************************************************************************)
(* Runs in a browser whose storage holds what an earlier session or        *)
(* another script left: nothing, a well-formed value or a corrupt one      *)
(***************************************************************************)
StorageDeltas == {1000, 2000}

StoredHighScores == {Null, ToText(20), Corrupt}

StoredLeaderboards == {Null, JSONStringify(<<20>>), Corrupt}

InitStorage ==
    /\ localStorage \in [highScore : StoredHighScores,
                          leaderboard : StoredLeaderboards]
    /\ finals = EmptyBag
    /\ InitGame
    /\ rectA = None
    /\ rectB = None

NextStorage ==
    \/ \E d \in StorageDeltas : AnimationFrame(d, MaxStorageFrames)
    \/ \E r \in Rands : GameLoop(r)
    \/ StartGame
    \/ PauseBtnClick
    \/ PlayBtnClick
    \/ JumpInput
    \/ Restart

SpecStorage == InitStorage /\ [][NextStorage]_vars

(***************************************************************************)
(* The ObstacleManager alone: every sequence of update(), spawnObstacle()  *)
(* and reset() calls, and of the Game's writes of spawnInterval, with at   *)
(* most MaxObstacles elements alive                                        *)
(***************************************************************************)
\* 500 ms + 1000 ms is the minSpawnGap exactly, 1400 ms crosses the container
ManagerDeltas == {500, 1000, 1400}

\* values line 393 produces: 2000 - 100 k, not below MIN_SPAWN_INTERVAL
SpawnIntervals == {MIN_SPAWN_INTERVAL * Fix, 1400 * Fix, INITIAL_SPAWN_INTERVAL * Fix}

\* the elements held by the manager
ActiveElements(om) == {om.activeObstacles[i].element : i \in 1..Len(om.activeObstacles)}

PoolElements(om) == {om.pool[i] : i \in 1..Len(om.pool)}

Total(om) == Len(om.activeObstacles) + Len(om.pool)

\* obstacleManager.update(deltaTime): lines 190-208
CallManagerUpdate(deltaMs, rand) ==
    /\ Total(ManagerUpdate(obstacleManager, deltaMs, rand)) <= MaxObstacles
    /\ obstacleManager' = ManagerUpdate(obstacleManager, deltaMs, rand)
    /\ attached' = AttachedAfterUpdate(attached, obstacleManager, deltaMs, rand)
    /\ deltaTime' = deltaMs
    /\ called' = "managerUpdate"
    /\ UNCHANGED <<character, game, localStorage, rafQueue, frameQueue, now,
                   frames, dispatched, finals, rectA, rectB, tested, clock>>

\* obstacleManager.spawnObstacle(): lines 209-221
CallSpawnObstacle ==
    /\ Total(SpawnObstacle(obstacleManager)) <= MaxObstacles
    /\ obstacleManager' = SpawnObstacle(obstacleManager)
    /\ attached' = attached \cup {SpawnElement(obstacleManager)}
    /\ called' = "spawnObstacle"
    /\ UNCHANGED <<character, game, localStorage, rafQueue, frameQueue, now,
                   frames, dispatched, finals, rectA, rectB, tested, deltaTime, clock>>

\* obstacleManager.reset(): lines 222-228
CallManagerReset ==
    /\ obstacleManager' = ManagerReset(obstacleManager)
    /\ attached' = attached \ (ActiveElements(obstacleManager)
                                \cup PoolElements(obstacleManager))
    /\ called' = "reset"
    /\ UNCHANGED <<character, game, localStorage, rafQueue, frameQueue, now,
                   frames, dispatched, finals, rectA, rectB, tested, deltaTime, clock>>

\* line 397: this.obstacleManager.spawnInterval = this.spawnInterval
AssignSpawnInterval(interval) ==
    /\ obstacleManager' = [obstacleManager EXCEPT !.spawnInterval = interval]
    /\ called' = "spawnInterval"
    /\ UNCHANGED <<character, attached, game, localStorage, rafQueue, frameQueue,
                   now, frames, dispatched, finals, rectA, rectB, tested, deltaTime, clock>>

NextManager ==
    \/ \E d \in ManagerDeltas : \E r \in Rands : CallManagerUpdate(d, r)
    \/ CallSpawnObstacle
    \/ CallManagerReset
    \/ \E i \in SpawnIntervals : AssignSpawnInterval(i)

SpecManager == Init /\ [][NextManager]_vars

(***************************************************************************)
(* Properties                                                              *)
(***************************************************************************)
Ground == GROUND_LEVEL * Fix

\* C3 as stated: yPos is never below groundLevel, and velocityY is zero if
\* and only if yPos equals groundLevel.
NeverBelowAndZeroIffGrounded ==
    /\ character.yPos >= Ground
    /\ (character.velocityY = 0) <=> (character.yPos = Ground)

\* C3 amended: yPos is never below groundLevel, and the character is at rest
\* (yPos = groundLevel with velocityY = 0) exactly when no jump is in
\* progress.
NeverBelowAndAtRestIffNotJumping ==
    /\ character.yPos >= Ground
    /\ (~character.isJumping) <=>
           (character.yPos = Ground /\ character.velocityY = 0)

\* a landing: update() has just brought a jumping character back to rest
LandedAtRest ==
    /\ called = "update"
    /\ dispatched = <<"playerLand">>
    /\ character.yPos = Ground
    /\ ~character.isJumping

\* C4: a jump() call while a jump is in progress and the grace counter is
\* zero changes nothing of the character and dispatches no event.
AirborneJumpWithoutGraceIsNoOp ==
    [][(called' = "jump" /\ character.isJumping /\ character.coyoteCounter = 0)
          => (character' = character /\ dispatched' = <<>>)]_vars

\* jump() has just been turned down in mid-air
JumpRejectedInAir ==
    /\ called = "jump"
    /\ dispatched = <<>>
    /\ character.isJumping
    /\ character.coyoteCounter = 0
    /\ character.yPos > Ground

\* C5: a jump() call while no jump is in progress, or while one is and the
\* grace counter is positive, sets velocityY to the jump power, sets
\* isJumping, zeroes the grace counter and dispatches one playerJump event.
AcceptedJumpSetsPowerAndFlags ==
    [][(called' = "jump"
          /\ (~character.isJumping \/ character.coyoteCounter > 0))
          => /\ character'.velocityY = CHARACTER_JUMP_POWER * Fix
             /\ character'.isJumping
             /\ character'.coyoteCounter = 0
             /\ character'.yPos = character.yPos
             /\ dispatched' = <<"playerJump">>]_vars

\* jump() has just been accepted in mid-air, inside the grace window
JumpAcceptedInAir ==
    /\ called = "jump"
    /\ dispatched = <<"playerJump">>
    /\ character.yPos > Ground
    /\ character.velocityY = CHARACTER_JUMP_POWER * Fix

\* C7 as stated: the test gives the same result with the roles swapped.
OverlapSymmetric ==
    tested # None => tested.ab = tested.ba

\* the two rectangles share a horizontal stretch, as lines 375-376 test it
HorizontalOverlap == rectA.right > rectB.left /\ rectA.left < rectB.right

\* C7 amended: the test gives the same result with the roles swapped when
\* each rectangle's bottom is below the other's top; when the rectangles
\* share a horizontal stretch and only one of the two bottoms is below the
\* other's top, the two results differ.
OverlapSymmetricWhenVerticalMeets ==
    tested # None =>
        /\ (rectA.bottom > rectB.top /\ rectB.bottom > rectA.top)
              => tested.ab = tested.ba
        /\ (HorizontalOverlap
              /\ (rectA.bottom > rectB.top) # (rectB.bottom > rectA.top))
              => tested.ab # tested.ba

\* both orders of the test have reported an overlap
OverlapBothWays ==
    /\ tested # None
    /\ tested.ab /\ tested.ba
    /\ rectA # rectB

\* C1: Game.state changes only Home -> Running by startGame, Running ->
\* Paused by pause, Paused -> Running by resume, Running -> GameOver by a
\* tick, GameOver -> Running by restart.
OnlyListedTransitions ==
    [][game'.state # game.state =>
          <<game.state, game'.state, called'>> \in
              { <<HOME, RUNNING, "startGame">>,
                <<RUNNING, PAUSED, "pause">>,
                <<PAUSED, RUNNING, "resume">>,
                <<RUNNING, GAMEOVER, "gameLoop">>,
                <<GAMEOVER, RUNNING, "restart">> }]_vars

\* C2: at most one gameLoop callback is pending at any time.
AtMostOnePendingCallback == rafQueue + frameQueue <= 1

\* some active obstacle's bounds overlap the character's bounds
SomeObstacleOverlaps(ch, om) ==
    \E i \in 1..Len(om.activeObstacles) :
        LET c == CharRect(ch)
            o == ObsRect(om.activeObstacles[i])
        IN  c.right > o.left /\ c.left < o.right /\ c.bottom > o.top

\* C6: a tick run while Running ends in GameOver exactly when some active
\* obstacle overlaps the character; then one playerCollision event is
\* dispatched, the final score is recorded once, the score is not changed and
\* no next tick is requested; otherwise the game stays Running and requests
\* the next tick.
TickCollidesExactlyOnOverlap ==
    [][(called' = "gameLoop" /\ game.state = RUNNING) =>
          IF SomeObstacleOverlaps(character', obstacleManager')
          THEN /\ game'.state = GAMEOVER
               /\ Occurrences(dispatched', "playerCollision") = 1
               /\ game'.score = game.score
               /\ game'.level = game.level
               /\ rafQueue' = rafQueue
               /\ finals' = finals (+) SetToBag({Floor(game.score)})
          ELSE /\ game'.state = RUNNING
               /\ Occurrences(dispatched', "playerCollision") = 0
               /\ rafQueue' = rafQueue + 1
               /\ finals' = finals]_vars

\* a tick has just ended the run on a collision
TickJustCollided ==
    /\ called = "gameLoop"
    /\ game.state = GAMEOVER
    /\ dispatched = <<"playerCollision">>
    /\ SomeObstacleOverlaps(character, obstacleManager)

IsSortedDesc(seq) == \A i \in 1..(Len(seq) - 1) : seq[i] >= seq[i + 1]

\* C8: the stored leaderboard is sorted in descending order, has at most 5
\* entries, and holds the largest of the final scores recorded so far, each
\* recorded once (all of them while there are fewer than 5); inserting 50,
\* 200, 10, 300, 150, 400 into an empty one gives [400, 300, 200, 150, 50].
LeaderboardIsTopFive ==
    LET lb == ParseLeaderboard(localStorage.leaderboard)
        rest == finals (-) SeqToBag(lb)
    IN  /\ IsSortedDesc(lb)
        /\ Len(lb) = Min(LeaderboardSize, BagCardinality(finals))
        /\ SeqToBag(lb) \sqsubseteq finals
        /\ \A x \in BagToSet(rest) : \A i \in 1..Len(lb) : lb[i] >= x
        /\ InsertAll(Null, <<50, 200, 10, 300, 150, 400>>)
               = JSONStringify(<<400, 300, 200, 150, 50>>)

\* a sixth final score has pushed a lower one off a full leaderboard
SixthScoreDroppedOne ==
    LET lb == ParseLeaderboard(localStorage.leaderboard)
    IN  /\ BagCardinality(finals) > LeaderboardSize
        /\ Len(lb) = LeaderboardSize
        /\ game.state = GAMEOVER
        /\ lb[1] > lb[LeaderboardSize]
        /\ \E x \in BagToSet(finals (-) SeqToBag(lb)) : x < lb[1]

\* C9: after every scored tick, level = 1 + floor(score / 1000).
LevelTracksScore ==
    (called = "gameLoop" /\ game.state = RUNNING) =>
        game.level = 1 + Floor(game.score) \div LevelStep

\* C10: the speed ObstacleManager.update scrolls with is
\* INITIAL_OBSTACLE_SPEED + (level - 1).
ManagerSpeedTracksLevel ==
    obstacleManager.obstacleSpeed = INITIAL_OBSTACLE_SPEED + (game.level - 1)

\* a tick has just run to its end without a collision
TickJustScored == called = "gameLoop" /\ game.state = RUNNING

\* C11: after every completed tick the spawn interval of the Game and of the
\* ObstacleManager are both max(800, 2000 - score / 5): 1600 at score 2000,
\* 800 at score 6000, always within [800, 2000]; and from one tick to the
\* next the score does not shrink and the interval does not grow.
SpawnIntervalFollowsScore ==
    /\ [](TickJustScored =>
            /\ 5 * game.spawnInterval =
                 IF 5 * INITIAL_SPAWN_INTERVAL * Fix - game.score
                       > 5 * MIN_SPAWN_INTERVAL * Fix
                 THEN 5 * INITIAL_SPAWN_INTERVAL * Fix - game.score
                 ELSE 5 * MIN_SPAWN_INTERVAL * Fix
            /\ obstacleManager.spawnInterval = game.spawnInterval
            /\ game.spawnInterval >= MIN_SPAWN_INTERVAL * Fix
            /\ game.spawnInterval <= INITIAL_SPAWN_INTERVAL * Fix
            /\ (game.score = 2000 * Fix => game.spawnInterval = 1600 * Fix)
            /\ (game.score = 6000 * Fix => game.spawnInterval = 800 * Fix))
    /\ [][(called' = "gameLoop" /\ game.state = RUNNING
             /\ game'.state = RUNNING)
            => (game'.score >= game.score
                  /\ game'.spawnInterval <= game.spawnInterval)]_vars

\* a tick has just carried the score to 6000 and the interval to its floor
IntervalAtFloor ==
    /\ TickJustScored
    /\ game.score = 6000 * Fix
    /\ obstacleManager.spawnInterval = MIN_SPAWN_INTERVAL * Fix

\* C12: right after restart() the score is 0, the level 1, the manager's
\* active list and pool are empty and its spawn timer 0, the character is at
\* groundLevel with velocityY 0 and isJumping false, and the state is Running.
RestartResetsRun ==
    called = "restart" =>
        /\ game.state = RUNNING
        /\ game.score = 0
        /\ game.level = 1
        /\ obstacleManager.activeObstacles = <<>>
        /\ obstacleManager.pool = <<>>
        /\ obstacleManager.timeSinceLastSpawn = 0
        /\ attached = {}
        /\ character.yPos = Ground
        /\ character.velocityY = 0
        /\ ~character.isJumping

\* restart() has just been called in the middle of a jump, in a session that
\* has scored
RestartedMidJump ==
    /\ called = "restart"
    /\ game.highScore > 0
    /\ character.coyoteCounter < COYOTE_THRESHOLD

\* C13: the obstacle speed and the spawn interval that the first
\* ObstacleManager.update after restart() works with (the manager's fields as
\* restart() leaves them) are INITIAL_OBSTACLE_SPEED and
\* INITIAL_SPAWN_INTERVAL.
RestartResetsManagerDifficulty ==
    called = "restart" =>
        /\ obstacleManager.obstacleSpeed = INITIAL_OBSTACLE_SPEED
        /\ obstacleManager.spawnInterval = INITIAL_SPAWN_INTERVAL * Fix

\* C14: after any sequence of update, spawnObstacle and reset calls every
\* obstacle element is in at most one of activeObstacles and pool, and at
\* most once; every active element is attached to the container and every
\* pooled element is detached.
HandlesDisjointAndAttachedIffActive ==
    /\ Cardinality(ActiveElements(obstacleManager)) = Len(obstacleManager.activeObstacles)
    /\ Cardinality(PoolElements(obstacleManager)) = Len(obstacleManager.pool)
    /\ ActiveElements(obstacleManager) \cap PoolElements(obstacleManager) = {}
    /\ ActiveElements(obstacleManager) \subseteq attached
    /\ PoolElements(obstacleManager) \cap attached = {}

\* the last call spawned: spawnObstacle() itself, or an update() that left
\* the accumulator at 0
JustSpawned ==
    \/ called = "spawnObstacle"
    \/ called = "managerUpdate" /\ obstacleManager.timeSinceLastSpawn = 0

\* a spawn has just popped the pool (it is still not empty) while another
\* obstacle is active
ReusedWithOthersAround ==
    /\ JustSpawned
    /\ Len(obstacleManager.activeObstacles) >= 2
    /\ Len(obstacleManager.pool) >= 1

\* C15: across update and spawnObstacle calls the number of elements in
\* activeObstacles plus pool never decreases: every element held before the
\* call is held after it, at most one element is new, and an element is new
\* only when the spawn found the pool empty.
TotalGrowsOnlyOnEmptyPool ==
    [][called' \in {"managerUpdate", "spawnObstacle"} =>
          LET held == ActiveElements(obstacleManager) \cup PoolElements(obstacleManager)
              heldAfter == ActiveElements(obstacleManager')
                             \cup PoolElements(obstacleManager')
          IN  /\ held \subseteq heldAfter
              /\ Total(obstacleManager') >= Total(obstacleManager)
              /\ Total(obstacleManager') - Total(obstacleManager)
                    = Cardinality(heldAfter \ held)
              /\ Cardinality(heldAfter \ held) <= 1
              /\ heldAfter # held => JustSpawned' /\ obstacleManager'.pool = <<>>
              /\ Len(obstacleManager'.pool) > 0 /\ JustSpawned'
                    => heldAfter = held]_vars

\* an update() has spawned by popping a pool that is still not empty
UpdateReusedPooled ==
    /\ called = "managerUpdate"
    /\ obstacleManager.timeSinceLastSpawn = 0
    /\ Len(obstacleManager.activeObstacles) >= 1
    /\ Len(obstacleManager.pool) >= 1

\* C16: for every random draw the spawn delay is at least minSpawnGap; an
\* update() spawns only when the time accumulated since the previous spawn
\* exceeds minSpawnGap, spawns at most one obstacle, and leaves the
\* accumulator at 0 when it has spawned.
SpawnOnlyAfterMinGap ==
    /\ [](\A r \in Rands :
            SpawnDelay(obstacleManager.spawnInterval, r) >= MinSpawnGap * RandDen * Fix)
    /\ [][called' = "managerUpdate" =>
            LET time == obstacleManager.timeSinceLastSpawn + deltaTime'
                kept == Len(StillActive(obstacleManager, deltaTime'))
                spawned == Len(obstacleManager'.activeObstacles) - kept
            IN  /\ spawned \in {0, 1}
                /\ spawned = 1 => /\ time > MinSpawnGap
                                   /\ obstacleManager'.timeSinceLastSpawn = 0
                /\ spawned = 0 => obstacleManager'.timeSinceLastSpawn = time]_vars

\* an update() has spawned under the shortest interval, where the unclamped
\* delay would be below minSpawnGap for every draw
SpawnedAtMinInterval ==
    /\ called = "managerUpdate"
    /\ obstacleManager.timeSinceLastSpawn = 0
    /\ obstacleManager.spawnInterval = MIN_SPAWN_INTERVAL * Fix
    /\ deltaTime = 500

\* C17 as stated: a missing or corrupt stored leaderboard or high score is
\* treated as absent.  A collision leaves a well-formed stored leaderboard
\* that holds the final score (or five scores not below it), and after a
\* scored tick the high score is a number not below the score.
CorruptStorageTreatedAsAbsent ==
    /\ called = "gameLoop" /\ game.state = GAMEOVER /\ dispatched # <<>>
          => /\ localStorage.leaderboard \notin {Null, Corrupt}
             /\ LET board == ParseLeaderboard(localStorage.leaderboard)
                IN  \/ \E i \in 1..Len(board) : board[i] = Floor(game.score)
                    \/ /\ Len(board) = LeaderboardSize
                       /\ \A i \in 1..Len(board) : board[i] >= Floor(game.score)
    /\ TickJustScored
          => /\ game.highScore # NotANumber
             /\ game.highScore >= Floor(game.score)

\* C18: time spent paused never reaches the simulation.  While the game is
\* PAUSED no frame and no frame callback changes the score, the character or
\* the obstacles, also when the callback was requested before the pause; and
\* a tick that scores measures its elapsed time from the last tick, start,
\* restart or resume, whichever came last.
PausedTimeNeverSimulated ==
    /\ [][game.state = PAUSED /\ called' \in {"frame", "gameLoop"} =>
            /\ game' = game
            /\ character' = character
            /\ obstacleManager' = obstacleManager
            /\ attached' = attached
            /\ rafQueue' <= rafQueue]_vars
    /\ [][called' = "gameLoop" /\ game.state = RUNNING /\ game'.state = RUNNING =>
            /\ game'.score - game.score = ScoreGain(now - clock.anchor)
            /\ \E r \in Rands :
                  obstacleManager'.activeObstacles =
                    ManagerUpdate(obstacleManager, now - clock.anchor, r).activeObstacles]_vars

\* a tick has scored after a resume that skipped paused time in a run started
\* at time 0: the score is that of the time not spent paused
ScoredAfterPause ==
    /\ TickJustScored
    /\ clock.skipped > 0
    /\ game.score > 0
    /\ game.score = ScoreGain(now - clock.skipped)

\* C19 as stated: no mid-air double jump.  Once a jump() has been accepted
\* and until the character has landed, a further jump() call changes nothing
\* of the character and dispatches no playerJump event.
NoDoubleJump ==
    [][called' = "jump" /\ character.isJumping
          => character' = character /\ dispatched' = <<>>]_vars

\* update() has just ended a jump: the character is at rest on the ground
\* and one playerLand event was dispatched
LandedWithOneEvent ==
    /\ called = "update"
    /\ dispatched = <<"playerLand">>
    /\ character.yPos = Ground
    /\ character.velocityY = 0
    /\ ~character.isJumping

\* C20: every jump ends.  While update() keeps being called, a character
\* with a jump in progress is eventually back at rest on the ground, whatever
\* jump() calls arrive in between, and the landing dispatches exactly one
\* playerLand event; no other step dispatches one.
EveryJumpEnds ==
    /\ character.isJumping ~> LandedWithOneEvent
    /\ [][("playerLand" \in {dispatched'[i] : i \in 1..Len(dispatched')})
            => /\ character.isJumping
               /\ ~character'.isJumping
               /\ dispatched' = <<"playerLand">>]_vars

\* a jump has ended with the grace counter used up
LandedGraceSpent ==
    /\ LandedWithOneEvent
    /\ character.coyoteCounter = 0
====
